---- MODULE Spec2Model ----
(***************************************************************************)
(* Model of src/lib/reflection/fork-script.ts: the entry point of the      *)
(* forked reflection process.  One behaviour is one invocation of run().   *)
(* The ambient configuration (layout setting, reflection stage, presence   *)
(* of process.send) is fixed by Init; the outcomes of the external         *)
(* collaborators (appRunner.start, Plugin.importAndLoadRuntimePlugins,     *)
(* writeArtifacts) are chosen nondeterministically when they settle.       *)
(***************************************************************************)
EXTENDS Integers, Sequences, FiniteSets, TLC

VARIABLES
    layoutEnv,   \* process.env.NEXUS_REFLECTION_LAYOUT
    stage,       \* the ambient reflection stage read by isReflectionStage
    hasSend,     \* whether process.send is defined
    pc,          \* position of run()
    layout,      \* const layout (line 16); "null" before it is bound
    plugins,     \* app.private.state.plugins
    messages,    \* messages handed to process.send, in order
    thrown,      \* the failure run() rejects with; <<>> if none
    schemaSettings, \* app.settings.current.schema
    prev,        \* summary of the invocation of the previous process; <<>> if none
    caught,      \* history: the failures bound by the catch blocks, in order
    trace        \* history: the calls and checks of run(), in order

vars == <<layoutEnv, stage, hasSend, pc, layout, plugins, schemaSettings, prev, messages, thrown, caught, trace>>

\* ---------------------------------------------------------------- bounds
MaxPlugins == 2

\* ---------------------------------------------------------------- values
PluginNames == {"p1", "p2"}

RECURSIVE SeqsUpTo(_, _)
SeqsUpTo(S, n) ==
    IF n = 0 THEN {<<>>}
    ELSE LET shorter == SeqsUpTo(S, n - 1)
         IN  shorter \cup {Append(s, x) : s \in {t \in shorter : Len(t) = n - 1}, x \in S}

\* the plugin registries the application may hold
Registries == SeqsUpTo(PluginNames, MaxPlugins)

LayoutEnvs == {"unset", "empty", "malformed", "jsonA", "jsonB"}
Stages == {"plugin", "typegen", "other", "unset"}

\* the schema settings the application may have set
SchemaSettingsValues == {"default", "custom"}

\* an Error object: name, message, stack and the Error behaviour
MkError(m) == [isError |-> TRUE, name |-> "Error", message |-> m, stack |-> "at run"]

\* failures the collaborators may throw
CollaboratorErrors == {MkError("boom"), MkError("EACCES")}

LayoutRequiredError == MkError("process.env.NEXUS_REFLECTION_LAYOUT is required")
JsonSyntaxError ==
    [isError |-> TRUE, name |-> "SyntaxError", message |-> "Unexpected token", stack |-> "at JSON.parse"]
SendUndefinedError ==
    MkError("process.send is undefined, could not send the plugins back to the main process")

\* ---------------------------------------------------------------- helpers
\* JavaScript truthiness of an environment variable: undefined and "" are falsy
Truthy(v) == v \notin {"unset", "empty"}

\* JSON.parse of the layout setting
JSONparse(s) ==
    CASE s = "jsonA" -> [ok |-> TRUE, data |-> "A"]
      [] s = "jsonB" -> [ok |-> TRUE, data |-> "B"]
      [] OTHER       -> [ok |-> FALSE, data |-> "null"]

\* serializeError: the plain data of an Error, without its behaviour
serializeError(err) == [name |-> err.name, message |-> err.message, stack |-> err.stack]

\* isReflectionStage(candidate): the active stage equals the candidate
isReflectionStage(candidate) == stage = candidate

\* mutant: process.send is called twice
sendDataToParent_Twice(msgs, tr, message) ==
    IF ~hasSend
    THEN [threw |-> TRUE, messages |-> msgs, trace |-> Append(tr, "send-throws")]
    ELSE [threw |-> FALSE, messages |-> Append(Append(msgs, message), message),
          trace |-> Append(tr, "send")]

\* mutant: the guard on process.send is missing
sendDataToParent_NoGuard(msgs, tr, message) ==
    [threw |-> FALSE, messages |-> Append(msgs, message), trace |-> Append(tr, "send")]

\* sendDataToParent(message): the state after the call.  threw tells whether
\* the call threw SendUndefinedError instead of sending.
sendDataToParent(msgs, tr, message) ==
    IF ~hasSend
    THEN [threw |-> TRUE, messages |-> msgs, trace |-> Append(tr, "send-throws")]
    ELSE [threw |-> FALSE, messages |-> Append(msgs, message), trace |-> Append(tr, "send")]

\* sendErrorToParent(err)
sendErrorToParent(msgs, tr, err) ==
    sendDataToParent(msgs, tr, [type |-> "error", data |-> [serializedError |-> serializeError(err)]])

\* mutant: the plugin list is accumulated in a store that outlives the invocation
SuccessPluginMessage_Accumulates ==
    [type |-> "success-plugin",
     data |-> [plugins |-> (IF prev = <<>> THEN <<>> ELSE prev[1].plugins) \o plugins]]

\* mutant: the registry is read before the application has registered plugins
SuccessPluginMessage_Stale == [type |-> "success-plugin", data |-> [plugins |-> <<>>]]

\* lines 28-33: the success-plugin message carries the plugin registry
SuccessPluginMessage == [type |-> "success-plugin", data |-> [plugins |-> plugins]]

\* mutant: the typegen message carries the registry as the plugin message does
SuccessTypegenMessage_Payload == [type |-> "success-typegen", data |-> [plugins |-> plugins]]

\* lines 46-48: the success-typegen message has no payload
SuccessTypegenMessage == [type |-> "success-typegen"]

\* ---------------------------------------------------------------- Init
Init ==
    /\ layoutEnv \in LayoutEnvs
    /\ stage \in Stages
    /\ hasSend \in BOOLEAN
    /\ pc = "l11"
    /\ layout = "null"
    /\ plugins = <<>>
    /\ schemaSettings = "default"
    /\ prev = <<>>
    /\ messages = <<>>
    /\ thrown = <<>>
    /\ caught = <<>>
    /\ trace = <<>>

\* ---------------------------------------------------------------- actions
\* lines 11-13: the layout setting is required
CheckLayoutEnv ==
    /\ pc = "l11"
    /\ IF ~Truthy(layoutEnv)
       THEN /\ pc' = "crashed"
            /\ thrown' = <<LayoutRequiredError>>
       ELSE /\ pc' = "l15"
            /\ UNCHANGED thrown
    /\ UNCHANGED <<prev, schemaSettings, caught, layoutEnv, stage, hasSend, layout, plugins, messages, trace>>

\* mutant: a layout that fails to parse is replaced by no layout
ConstructRunner_Lenient ==
    /\ pc = "l15"
    /\ pc' = "l22"
    /\ layout' = JSONparse(layoutEnv).data
    /\ trace' = Append(trace, "createDevAppRunner")
    /\ UNCHANGED <<prev, schemaSettings, caught, layoutEnv, stage, hasSend, plugins, messages, thrown>>

\* lines 15-19: require the app, parse the layout, construct the runner
ConstructRunner ==
    /\ pc = "l15"
    /\ LET parsed == JSONparse(layoutEnv)
       IN  IF ~parsed.ok
           THEN /\ pc' = "crashed"
                /\ thrown' = <<JsonSyntaxError>>
                /\ UNCHANGED <<layout, trace>>
           ELSE /\ pc' = "l22"
                /\ layout' = parsed.data
                /\ trace' = Append(trace, "createDevAppRunner")
                /\ UNCHANGED thrown
    /\ UNCHANGED <<prev, schemaSettings, caught, layoutEnv, stage, hasSend, plugins, messages>>

\* mutant: start() is not awaited
CallStart_NoAwait ==
    /\ pc = "l22"
    /\ pc' = "l27"
    /\ trace' = Append(trace, "start")
    /\ UNCHANGED <<prev, schemaSettings, caught, layoutEnv, stage, hasSend, layout, plugins, messages, thrown>>

\* line 22: appRunner.start() is called and awaited
CallStart ==
    /\ pc = "l22"
    /\ pc' = "awaitStart"
    /\ trace' = Append(trace, "start")
    /\ UNCHANGED <<prev, schemaSettings, caught, layoutEnv, stage, hasSend, layout, plugins, messages, thrown>>

\* line 22: start() resolves; the application has registered its plugins
\* and applied its settings
StartResolve ==
    /\ pc = "awaitStart"
    /\ \E ps \in Registries : plugins' = ps
    /\ \E st \in SchemaSettingsValues : schemaSettings' = st
    /\ pc' = "l27"
    /\ trace' = Append(trace, "start-ok")
    /\ UNCHANGED <<prev, caught, layoutEnv, stage, hasSend, layout, messages, thrown>>

\* mutant: the catch block swallows the start failure
StartReject_Silent ==
    /\ pc = "awaitStart"
    /\ \E err \in CollaboratorErrors, ps \in Registries, st \in SchemaSettingsValues :
          /\ plugins' = ps
          /\ schemaSettings' = st
          /\ caught' = Append(caught, err)
          /\ trace' = Append(trace, "start-fail")
    /\ pc' = "l27"
    /\ UNCHANGED <<prev, layoutEnv, stage, hasSend, layout, messages, thrown>>

\* lines 23-25: start() rejects; the catch block reports the failure
StartReject ==
    /\ pc = "awaitStart"
    /\ \E err \in CollaboratorErrors, ps \in Registries, st \in SchemaSettingsValues :
          LET r == sendErrorToParent(messages, Append(trace, "start-fail"), err)
          IN  /\ plugins' = ps
              /\ schemaSettings' = st
              /\ caught' = Append(caught, err)
              /\ messages' = r.messages
              /\ trace' = r.trace
              /\ IF r.threw
                 THEN pc' = "crashed" /\ thrown' = <<SendUndefinedError>>
                 ELSE pc' = "l27" /\ UNCHANGED thrown
    /\ UNCHANGED <<prev, layoutEnv, stage, hasSend, layout>>

\* mutant: the registry is emptied while it is sent
PluginStage_Drains ==
    /\ pc = "l27"
    /\ IF isReflectionStage("plugin")
       THEN LET r == sendDataToParent(messages, Append(trace, "check-plugin"), SuccessPluginMessage)
            IN  /\ messages' = r.messages
                /\ trace' = r.trace
                /\ plugins' = <<>>
                /\ IF r.threw
                   THEN pc' = "crashed" /\ thrown' = <<SendUndefinedError>>
                   ELSE pc' = "done" /\ UNCHANGED thrown
       ELSE /\ pc' = "l38"
            /\ trace' = Append(trace, "check-plugin")
            /\ UNCHANGED <<messages, thrown, plugins>>
    /\ UNCHANGED <<prev, schemaSettings, caught, layoutEnv, stage, hasSend, layout>>

\* mutant: the return after the success-plugin send is missing
PluginStage_NoReturn ==
    /\ pc = "l27"
    /\ IF isReflectionStage("plugin")
       THEN LET r == sendDataToParent(messages, Append(trace, "check-plugin"), SuccessPluginMessage)
            IN  /\ messages' = r.messages
                /\ trace' = r.trace
                /\ IF r.threw
                   THEN pc' = "crashed" /\ thrown' = <<SendUndefinedError>>
                   ELSE pc' = "l38" /\ UNCHANGED thrown
       ELSE /\ pc' = "l38"
            /\ trace' = Append(trace, "check-plugin")
            /\ UNCHANGED <<messages, thrown>>
    /\ UNCHANGED <<prev, schemaSettings, caught, layoutEnv, stage, hasSend, layout, plugins>>

\* lines 27-36: the plugin stage
PluginStage ==
    /\ pc = "l27"
    /\ IF isReflectionStage("plugin")
       THEN LET r == sendDataToParent(messages, Append(trace, "check-plugin"), SuccessPluginMessage)
            IN  /\ messages' = r.messages
                /\ trace' = r.trace
                /\ IF r.threw
                   THEN pc' = "crashed" /\ thrown' = <<SendUndefinedError>>
                   ELSE pc' = "done" /\ UNCHANGED thrown
       ELSE /\ pc' = "l38"
            /\ trace' = Append(trace, "check-plugin")
            /\ UNCHANGED <<messages, thrown>>
    /\ UNCHANGED <<prev, schemaSettings, caught, layoutEnv, stage, hasSend, layout, plugins>>

\* mutant: the typegen branch is entered whenever the plugin stage is not active
TypegenCheck_Else ==
    /\ pc = "l38"
    /\ trace' = Append(trace, "check-typegen")
    /\ pc' = "l40"
    /\ UNCHANGED <<prev, schemaSettings, caught, layoutEnv, stage, hasSend, layout, plugins, messages, thrown>>

\* line 38: the typegen stage check
TypegenCheck ==
    /\ pc = "l38"
    /\ trace' = Append(trace, "check-typegen")
    /\ pc' = IF isReflectionStage("typegen") THEN "l40" ELSE "done"
    /\ UNCHANGED <<prev, schemaSettings, caught, layoutEnv, stage, hasSend, layout, plugins, messages, thrown>>

\* lines 40-45: the arguments are evaluated (plugins are imported and
\* loaded) and writeArtifacts is called and awaited
CallWriteArtifacts ==
    /\ pc = "l40"
    /\ pc' = "awaitWrite"
    /\ trace' = trace \o <<"importAndLoadRuntimePlugins", "writeArtifacts">>
    /\ UNCHANGED <<prev, schemaSettings, caught, layoutEnv, stage, hasSend, layout, plugins, messages, thrown>>

\* mutant: the plugins are loaded before the try block, so a failure escapes
LoadPluginsThrows_Uncaught ==
    /\ pc = "l40"
    /\ \E err \in CollaboratorErrors :
          /\ thrown' = <<err>>
          /\ pc' = "crashed"
          /\ trace' = trace \o <<"importAndLoadRuntimePlugins", "load-fail">>
    /\ UNCHANGED <<prev, schemaSettings, caught, layoutEnv, stage, hasSend, layout, plugins, messages>>

\* lines 44, 51-53: importAndLoadRuntimePlugins throws inside the try block
LoadPluginsThrows ==
    /\ pc = "l40"
    /\ \E err \in CollaboratorErrors :
          LET r == sendErrorToParent(messages,
                                     trace \o <<"importAndLoadRuntimePlugins", "load-fail">>, err)
          IN  /\ caught' = Append(caught, err)
              /\ messages' = r.messages
              /\ trace' = r.trace
              /\ IF r.threw
                 THEN pc' = "crashed" /\ thrown' = <<SendUndefinedError>>
                 ELSE pc' = "done" /\ UNCHANGED thrown
    /\ UNCHANGED <<prev, schemaSettings, layoutEnv, stage, hasSend, layout, plugins>>

\* lines 46-53: writeArtifacts resolves; success-typegen is sent inside the
\* try block, so a failing send is caught and reported by the catch block
WriteResolve ==
    /\ pc = "awaitWrite"
    /\ LET r == sendDataToParent(messages, Append(trace, "write-ok"), SuccessTypegenMessage)
       IN  IF ~r.threw
           THEN /\ messages' = r.messages
                /\ trace' = r.trace
                /\ pc' = "done"
                /\ UNCHANGED <<thrown, caught>>
           ELSE LET r2 == sendErrorToParent(r.messages, r.trace, SendUndefinedError)
                IN  /\ caught' = Append(caught, SendUndefinedError)
                    /\ messages' = r2.messages
                    /\ trace' = r2.trace
                    /\ IF r2.threw
                       THEN pc' = "crashed" /\ thrown' = <<SendUndefinedError>>
                       ELSE pc' = "done" /\ UNCHANGED thrown
    /\ UNCHANGED <<prev, schemaSettings, layoutEnv, stage, hasSend, layout, plugins>>

\* mutant: the catch block of the typegen stage swallows the failure
WriteReject_Swallow ==
    /\ pc = "awaitWrite"
    /\ \E err \in CollaboratorErrors :
          /\ caught' = Append(caught, err)
          /\ trace' = Append(trace, "write-fail")
    /\ pc' = "done"
    /\ UNCHANGED <<prev, schemaSettings, layoutEnv, stage, hasSend, layout, plugins, messages, thrown>>

\* lines 51-53: writeArtifacts rejects; the catch block reports the failure
WriteReject ==
    /\ pc = "awaitWrite"
    /\ \E err \in CollaboratorErrors :
          LET r == sendErrorToParent(messages, Append(trace, "write-fail"), err)
          IN  /\ caught' = Append(caught, err)
              /\ messages' = r.messages
              /\ trace' = r.trace
              /\ IF r.threw
                 THEN pc' = "crashed" /\ thrown' = <<SendUndefinedError>>
                 ELSE pc' = "done" /\ UNCHANGED thrown
    /\ UNCHANGED <<prev, schemaSettings, layoutEnv, stage, hasSend, layout, plugins>>

Next ==
    \/ CheckLayoutEnv
    \/ ConstructRunner
    \/ CallStart
    \/ StartResolve
    \/ StartReject
    \/ PluginStage
    \/ TypegenCheck
    \/ CallWriteArtifacts
    \/ LoadPluginsThrows
    \/ WriteResolve
    \/ WriteReject

Spec == Init /\ [][Next]_vars

\* ---------------------------------------------------------------- two invocations
\* what the collaborators did in this invocation: the outcomes of start(),
\* importAndLoadRuntimePlugins() and writeArtifacts(), in order
IsOutcome(e) ==
    e \in {"start-ok", "start-fail", "load-fail", "writeArtifacts", "write-ok", "write-fail"}
CollaboratorOutcomes == SelectSeq(trace, IsOutcome)

\* the inputs and the output of the current invocation
RunSummary ==
    [layoutEnv |-> layoutEnv, stage |-> stage, hasSend |-> hasSend,
     outcomes |-> CollaboratorOutcomes, errors |-> caught,
     plugins |-> plugins, schemaSettings |-> schemaSettings,
     messages |-> messages]

\* line 69: the parent forks another process, which runs the module afresh;
\* the module keeps no state outside run()
Fork ==
    /\ pc \in {"done", "crashed"}
    /\ prev = <<>>
    /\ prev' = <<RunSummary>>
    /\ layoutEnv' \in LayoutEnvs
    /\ stage' \in Stages
    /\ hasSend' \in BOOLEAN
    /\ pc' = "l11"
    /\ layout' = "null"
    /\ plugins' = <<>>
    /\ schemaSettings' = "default"
    /\ messages' = <<>>
    /\ thrown' = <<>>
    /\ caught' = <<>>
    /\ trace' = <<>>

NextForked ==
    \/ Next
    \/ Fork

\* two invocations, one process after the other
ForkedSpec == Init /\ [][NextForked]_vars

\* One invocation in which every step that can run does run: the event loop
\* resumes run() after each await, and start() and writeArtifacts() settle.
LiveSpec == Init /\ [][Next]_vars /\ WF_vars(Next)

\* ---------------------------------------------------------------- properties
InTrace(e) == \E i \in DOMAIN trace : trace[i] = e
Count(t) == Cardinality({i \in DOMAIN messages : messages[i].type = t})
Terminal == pc \in {"done", "crashed"}
ValidLayout == JSONparse(layoutEnv).ok
StartFailed == InTrace("start-fail")
StartSucceeded == InTrace("start-ok")
ErrorMessage(err) == [type |-> "error", data |-> [serializedError |-> serializeError(err)]]
StageWorkDone ==
    \/ Count("success-plugin") > 0
    \/ InTrace("importAndLoadRuntimePlugins")
    \/ InTrace("writeArtifacts")

\* C1: with a valid layout and an available channel, an invocation in which
\* start() fails sends exactly one error message and no success message.
C1_StartFailureIsTerminal ==
    (ValidLayout /\ hasSend /\ StartFailed) =>
        /\ Count("error") = 1
        /\ Count("success-plugin") = 0
        /\ Count("success-typegen") = 0

\* C2: at most one message is sent to the parent per invocation.
C2_AtMostOneMessage == Len(messages) <= 1

\* C3: valid layout, available channel, stage plugin and a successful start:
\* nothing is sent before the plugin branch, and the invocation ends having
\* sent exactly the success-plugin message carrying the registry, no error.
C3_PluginSuccess ==
    (ValidLayout /\ hasSend /\ stage = "plugin" /\ StartSucceeded) =>
        /\ pc \in {"l27", "done"}
        /\ pc = "l27" => messages = <<>>
        /\ pc = "done" =>
              /\ messages = <<[type |-> "success-plugin", data |-> [plugins |-> plugins]]>>
              /\ Count("error") = 0

C3_Witness ==
    /\ pc = "done" /\ hasSend /\ stage = "plugin" /\ StartSucceeded
    /\ Len(plugins) >= 2
    /\ Len(messages) = 1

\* C4: valid layout, available channel, stage typegen, successful start and
\* successful writeArtifacts: exactly one message is sent, it is
\* success-typegen and it has no payload.
C4_TypegenSuccess ==
    (ValidLayout /\ hasSend /\ stage = "typegen" /\ StartSucceeded /\ InTrace("write-ok")) =>
        /\ pc = "done"
        /\ Len(messages) = 1
        /\ messages[1].type = "success-typegen"
        /\ DOMAIN messages[1] = {"type"}

C4_Witness ==
    /\ pc = "done" /\ hasSend /\ stage = "typegen" /\ StartSucceeded /\ InTrace("write-ok")
    /\ Count("success-typegen") = 1

\* C5: when writeArtifacts fails under stage typegen (channel available),
\* exactly one error message is sent in the invocation, it carries the
\* message of the thrown failure, and no success-typegen is sent.
C5_WriteFailureOneError ==
    (hasSend /\ stage = "typegen" /\ InTrace("write-fail")) =>
        /\ Count("error") = 1
        /\ messages[Len(messages)].type = "error"
        /\ messages[Len(messages)].data.serializedError.message = caught[Len(caught)].message
        /\ Count("success-typegen") = 0

\* C6 (as stated): when the stage is neither plugin nor typegen, no message
\* is sent and no stage work is done, whatever the outcome of start.
C6_NoStageNoMessage ==
    (stage \notin {"plugin", "typegen"}) =>
        /\ messages = <<>>
        /\ ~StageWorkDone

\* C6 (amended): when the stage is neither plugin nor typegen, no stage work
\* is done and no success message is sent; nothing is sent when start
\* succeeds, and when start fails the only message is the error carrying
\* the start failure.
C6_NoStageOnlyStartError ==
    (stage \notin {"plugin", "typegen"}) =>
        /\ ~StageWorkDone
        /\ Count("success-plugin") = 0 /\ Count("success-typegen") = 0
        /\ ~StartFailed => messages = <<>>
        /\ StartFailed =>
              /\ Len(caught) = 1
              /\ messages = IF hasSend THEN <<ErrorMessage(caught[1])>> ELSE <<>>
        /\ InTrace("check-typegen") => pc = "done"

C6_Witness ==
    /\ stage \notin {"plugin", "typegen"}
    /\ pc = "done" /\ InTrace("check-typegen")
    /\ StartFailed /\ Len(messages) = 1

\* C7: when the layout setting is absent or does not parse, run() ends in
\* an unrecovered failure, no message is sent, and start, plugin loading
\* and writeArtifacts are never invoked.
C7_LayoutFatal ==
    (~Truthy(layoutEnv) \/ ~JSONparse(layoutEnv).ok) =>
        /\ pc \in {"l11", "l15", "crashed"}
        /\ pc = "crashed" => thrown # <<>>
        /\ messages = <<>>
        /\ ~InTrace("send") /\ ~InTrace("send-throws")
        /\ ~InTrace("createDevAppRunner") /\ ~InTrace("start")
        /\ ~InTrace("importAndLoadRuntimePlugins") /\ ~InTrace("writeArtifacts")

C7_Witness ==
    /\ layoutEnv = "malformed"
    /\ pc = "crashed"
    /\ thrown = <<JsonSyntaxError>>

\* C8: when start fails, the plugin registry is never sent, the plugins
\* are never loaded and writeArtifacts is never invoked.
C8_StartFailurePreemptsStageWork ==
    StartFailed => ~StageWorkDone

\* C9: when process.send is undefined no message is ever delivered, and
\* every invocation that reaches a send (start failure, plugin stage,
\* typegen success, typegen failure) ends in an unrecovered failure.
C9_NoChannelFatal ==
    ~hasSend =>
        /\ messages = <<>>
        /\ ~InTrace("send")
        /\ pc # "done" \/ ~InTrace("check-plugin") \/ stage # "plugin"
        /\ ( \/ InTrace("send-throws")
             \/ StartFailed
             \/ InTrace("write-ok")
             \/ InTrace("write-fail")
             \/ InTrace("load-fail") ) =>
              /\ pc = "crashed"
              /\ thrown = <<SendUndefinedError>>

C9_Witness ==
    /\ ~hasSend
    /\ InTrace("write-ok")
    /\ pc = "crashed"
    /\ caught = <<SendUndefinedError>>

\* C10 (as stated): a failure of importAndLoadRuntimePlugins in the typegen
\* stage is caught and sent as an error message, writeArtifacts is not
\* run, no success-typegen is sent, and run() does not end in an
\* unrecovered failure.
C10_LoadFailureReported ==
    InTrace("load-fail") =>
        /\ pc = "done"
        /\ Len(messages) >= 1
        /\ messages[Len(messages)] = ErrorMessage(caught[Len(caught)])
        /\ ~InTrace("writeArtifacts")
        /\ Count("success-typegen") = 0

\* C10 (amended): the same, provided the channel to the parent is
\* available.
C10_LoadFailureReportedIfChannel ==
    (hasSend /\ InTrace("load-fail")) =>
        /\ pc = "done"
        /\ thrown = <<>>
        /\ Len(messages) >= 1
        /\ messages[Len(messages)] = ErrorMessage(caught[Len(caught)])
        /\ ~InTrace("writeArtifacts")
        /\ Count("success-typegen") = 0

C10_Witness ==
    /\ hasSend /\ InTrace("load-fail")
    /\ stage = "typegen" /\ StartSucceeded
    /\ pc = "done" /\ Count("error") = 1

\* ---------------------------------------------------------------- ordering
FirstPos(e) == CHOOSE i \in DOMAIN trace : trace[i] = e /\ \A j \in 1..(i - 1) : trace[j] # e
Precedes(a, b) == InTrace(b) => (InTrace(a) /\ FirstPos(a) < FirstPos(b))
SettledAt(i) == trace[i] \in {"start-ok", "start-fail"}
AfterStartEvents ==
    {"send", "send-throws", "check-plugin", "check-typegen",
     "importAndLoadRuntimePlugins", "load-fail", "writeArtifacts", "write-ok", "write-fail"}
IsSuccess(m) == m.type \in {"success-plugin", "success-typegen"}

\* C11: when the active stage is plugin, run() returns after sending
\* success-plugin: the typegen check, plugin loading and writeArtifacts are
\* never evaluated; in any invocation the plugin branch and the typegen
\* branch never both execute.
C11_PluginStageReturns ==
    /\ stage = "plugin" =>
          /\ ~InTrace("check-typegen")
          /\ ~InTrace("importAndLoadRuntimePlugins")
          /\ ~InTrace("writeArtifacts")
          /\ pc \notin {"l38", "l40", "awaitWrite"}
          /\ (hasSend /\ InTrace("check-plugin")) =>
                /\ pc = "done"
                /\ messages[Len(messages)] = SuccessPluginMessage
    /\ Count("success-plugin") > 0 => ~InTrace("check-typegen")

C11_Witness ==
    /\ stage = "plugin" /\ hasSend
    /\ InTrace("check-plugin")
    /\ pc = "done"
    /\ Count("success-plugin") = 1

\* C12: the steps of one invocation are ordered: construct runner, start,
\* start settles, stage checks, plugin loading, writeArtifacts, its
\* completion.  No message is sent and writeArtifacts is not invoked before
\* start has settled, and success-typegen is sent only directly after
\* writeArtifacts has completed successfully.
C12_StepsOrdered ==
    /\ \A i \in DOMAIN trace :
          trace[i] \in AfterStartEvents => \E j \in 1..(i - 1) : SettledAt(j)
    /\ \A i \in DOMAIN trace :
          SettledAt(i) => \E j \in 1..(i - 1) : trace[j] = "start"
    /\ messages # <<>> => (StartSucceeded \/ StartFailed)
    /\ Precedes("createDevAppRunner", "start")
    /\ Precedes("check-plugin", "check-typegen")
    /\ Precedes("check-typegen", "importAndLoadRuntimePlugins")
    /\ Precedes("importAndLoadRuntimePlugins", "writeArtifacts")
    /\ Precedes("writeArtifacts", "write-ok")
    /\ Precedes("writeArtifacts", "write-fail")
    /\ Count("success-typegen") > 0 =>
          /\ InTrace("write-ok")
          /\ Len(trace) >= 2
          /\ trace[Len(trace)] = "send"
          /\ trace[Len(trace) - 1] = "write-ok"

C12_Witness ==
    /\ pc = "done"
    /\ Count("success-typegen") = 1
    /\ InTrace("start-ok") /\ InTrace("writeArtifacts") /\ InTrace("write-ok")

\* C16: at most one success message is sent per invocation, never both
\* success-plugin and success-typegen, and no message follows a success
\* message.
C16_SuccessIsLast ==
    /\ Count("success-plugin") + Count("success-typegen") <= 1
    /\ \A i \in DOMAIN messages : IsSuccess(messages[i]) => i = Len(messages)
    /\ (\E i \in DOMAIN messages : IsSuccess(messages[i])) => pc = "done"

C16_Witness ==
    /\ pc = "done"
    /\ Len(messages) = 2
    /\ messages[1].type = "error"
    /\ IsSuccess(messages[2])

\* C17: when start fails and the channel is available, the error message
\* carrying the serialized start failure is the first message sent, and
\* it is sent before any stage check is evaluated.
C17_StartErrorFirst ==
    (hasSend /\ StartFailed) =>
        /\ Len(messages) >= 1
        /\ messages[1] = ErrorMessage(caught[1])
        /\ InTrace("send")
        /\ FirstPos("send") = FirstPos("start-fail") + 1
        /\ Precedes("send", "check-plugin")
        /\ Precedes("send", "check-typegen")

C17_Witness ==
    /\ hasSend /\ StartFailed
    /\ InTrace("check-plugin") /\ InTrace("check-typegen")
    /\ messages[1].type = "error"
    /\ messages[1].data.serializedError.message = "EACCES"

\* ---------------------------------------------------------------- progress
\* C13: provided start() and writeArtifacts() settle, every invocation
\* reaches a terminal state; with a valid layout, an available channel and
\* stage plugin or typegen, run() completes and has sent at least one
\* message when it does.
C13_Progress ==
    /\ <>Terminal
    /\ (ValidLayout /\ hasSend /\ stage \in {"plugin", "typegen"}) =>
          <>(pc = "done" /\ messages # <<>>)
    /\ []((ValidLayout /\ hasSend /\ stage \in {"plugin", "typegen"} /\ Terminal) =>
            (pc = "done" /\ messages # <<>>))

C13_Witness ==
    /\ ValidLayout /\ hasSend /\ stage = "typegen"
    /\ InTrace("write-fail")
    /\ pc = "done"
    /\ messages # <<>>

\* ---------------------------------------------------------------- frame
\* C15: no step of run() changes the plugin registry, the schema settings
\* or the layout: the registry and the settings change only while the
\* application's start() settles, the layout only when it is bound from the
\* parsed setting, and the setting itself never; so the plugin list of a
\* success-plugin message is the registry as start() left it.
C15_RunnerLeavesAppState ==
    /\ [][ /\ pc # "awaitStart" => (plugins' = plugins /\ schemaSettings' = schemaSettings)
           /\ pc # "l15" => layout' = layout
           /\ layoutEnv' = layoutEnv ]_vars
    /\ [](\A i \in DOMAIN messages :
             messages[i].type = "success-plugin" => messages[i].data.plugins = plugins)

C15_Witness ==
    /\ stage = "plugin" /\ pc = "done"
    /\ Len(plugins) >= 1 /\ schemaSettings = "custom" /\ layout = "B"
    /\ Count("success-plugin") = 1
    /\ messages[Len(messages)].data.plugins = plugins

\* ---------------------------------------------------------------- two invocations
SameInputs ==
    /\ prev # <<>>
    /\ prev[1].layoutEnv = layoutEnv
    /\ prev[1].stage = stage
    /\ prev[1].hasSend = hasSend
    /\ prev[1].outcomes = CollaboratorOutcomes
    /\ prev[1].errors = caught
    /\ prev[1].plugins = plugins
    /\ prev[1].schemaSettings = schemaSettings

====
